---- MODULE Spec2Model ----
(***************************************************************************)
(* State-machine model of src/src/flash_cards_model.py: the SQLite store   *)
(* (tables words, sessions, scores), the FlashCardsModel methods and the   *)
(* two loader routines erase_and_recreate_tables and update_word_list.     *)
(*                                                                         *)
(* The store is what is committed in flash_cards.db.  Every action is one  *)
(* whole call, commit or rollback included.  `ret` is the outcome of the   *)
(* last call (what the caller sees); `log` and `lastSession` are history   *)
(* variables that record the calls made, they are never read by an action  *)
(* to decide what the store becomes.                                       *)
(***************************************************************************)
EXTENDS Integers, Sequences, FiniteSets, TLC

VARIABLES
    words,        \* table words: _id -> [level, word]  (_id INTEGER PRIMARY KEY)
    sessions,     \* table sessions: row i (ROWID i) holds the date text
    scores,       \* table scores: rows [session_rowid, word_id, correct]
    ret,          \* outcome of the last call
    log,          \* history: arguments of the score_word calls on this store
    lastSession   \* history: id returned by the latest new_session, 0 if none

vars == <<words, sessions, scores, ret, log, lastSession>>

(***************************************************************************)
(* Bounds of the model and input domains.                                  *)
(***************************************************************************)
MaxSessions == 2
MaxScores == 3
MaxRecords == 2

WordIds == {1, 2}
SessionIds == {1, 2}
\* the records an input file is made of; every field is text, as DictReader
\* gives it.  "word" is also the name of a column of the words table, and
\* the last record has an empty Level field.
Records ==
    { [Number |-> "1", Level |-> "1", Word |-> "hello"],
      [Number |-> "1", Level |-> "2", Word |-> "thanks"],
      [Number |-> "2", Level |-> "2", Word |-> "word"],
      [Number |-> "2", Level |-> "", Word |-> "hello"] }
\* local clock readings <<second, microsecond>>; the clock may repeat a
\* reading or move back between two calls
Times == {<<0, 0>>, <<0, 1>>}

\* a nullable SQL value: NULL (Python None) is <<>>, the value v is <<v>>
NULL == <<>>

NotNull(v) == <<v>>

Success_FALSE == 0
Success_TRUE == 1

(***************************************************************************)
(* Text and number conversions.                                            *)
(***************************************************************************)
\* datetime.isoformat() as a list of character codes (digit d is 48 + d,
\* "." is 46): the microsecond part is left out when it is 0
IsoFormat(t) ==
    IF t[2] = 0 THEN <<48 + t[1]>> ELSE <<48 + t[1], 46, 48 + t[2]>>

\* BINARY collation of two texts: a < b
RECURSIVE TextLess(_, _)
TextLess(a, b) ==
    IF b = <<>> THEN FALSE
    ELSE IF a = <<>> THEN TRUE
    ELSE IF Head(a) # Head(b) THEN Head(a) < Head(b)
    ELSE TextLess(Tail(a), Tail(b))

\* an integer literal spliced into SQL text by str.format
SqlInt(s) == CASE s = "0" -> 0 [] s = "1" -> 1 [] s = "2" -> 2 [] s = "3" -> 3

\* an integer stored into a TEXT column (TEXT affinity)
IntText(n) == CASE n = 0 -> "0" [] n = 1 -> "1" [] n = 2 -> "2" [] n = 3 -> "3"

\* float(a) / float(b), b # 0: the quotient, kept as a fraction in lowest terms
RECURSIVE Gcd(_, _)
Gcd(a, b) == IF b = 0 THEN a ELSE Gcd(b, a % b)

FloatDiv(a, b) == LET g == Gcd(a, b) IN <<a \div g, b \div g>>

(***************************************************************************)
(* The SQL statements of the session and score tables.                     *)
(***************************************************************************)
\* INSERT INTO sessions VALUES ("<date>"): the new row gets the next ROWID
SQL_INSERT_NEW_SESSION(tbl, date) == Append(tbl, date)

\* SELECT ROWID, MAX(date) FROM sessions: the rows the bare ROWID column may
\* come from are those holding the maximum date
SQL_MOST_RECENT_SESSION(tbl) ==
    {i \in 1..Len(tbl) : \A j \in 1..Len(tbl) : ~TextLess(tbl[i], tbl[j])}

\* INSERT INTO scores VALUES(session_id, word_id, correct)
SQL_INSERT_SCORE(tbl, session_id, word_id, correct) ==
    Append(tbl, [session_rowid |-> session_id, word_id |-> word_id,
                 correct |-> correct])

RECURSIVE SumCorrect(_)
SumCorrect(rows) ==
    IF rows = <<>> THEN 0 ELSE Head(rows).correct + SumCorrect(Tail(rows))

ScoresOfSession(tbl, session_id) ==
    SelectSeq(tbl, LAMBDA r : r.session_rowid = session_id)

\* SELECT COUNT(*) FROM scores WHERE session_rowid=<id>
SQL_SESSION_TOTAL(tbl, session_id) == Len(ScoresOfSession(tbl, session_id))

\* SELECT SUM(CORRECT) FROM scores WHERE session_rowid=<id>: NULL on no row
SQL_SCORE_SESSION_AllRows(tbl, session_id) ==
    IF tbl = <<>> THEN NULL ELSE NotNull(SumCorrect(tbl))

SQL_SCORE_SESSION(tbl, session_id) ==
    IF ScoresOfSession(tbl, session_id) = <<>> THEN NULL
    ELSE NotNull(SumCorrect(ScoresOfSession(tbl, session_id)))

\* SELECT scores.word_id, words.word FROM scores, words WHERE
\* words._id = scores.word_id AND scores.session_rowid=<id> AND scores.correct=0
RECURSIVE JoinWords(_, _)
JoinWords(rows, wtbl) ==
    IF rows = <<>> THEN <<>>
    ELSE LET r == Head(rows)
             rest == JoinWords(Tail(rows), wtbl)
         IN IF r.word_id \in DOMAIN wtbl
            THEN <<<<r.word_id, wtbl[r.word_id].word>>>> \o rest
            ELSE rest

SQL_INCORRECT_WORDS_AnyOutcome(stbl, wtbl, session_id) ==
    JoinWords(SelectSeq(stbl, LAMBDA r : r.session_rowid = session_id), wtbl)

SQL_INCORRECT_WORDS(stbl, wtbl, session_id) ==
    JoinWords(SelectSeq(stbl, LAMBDA r : r.session_rowid = session_id
                                         /\ r.correct = 0), wtbl)

\* SELECT _id, word FROM words ORDER BY RANDOM() LIMIT 1: the rows it may give
SQL_RANDOM_WORD_Mixed(wtbl) ==
    {<<i, wtbl[j].word>> : i \in DOMAIN wtbl, j \in DOMAIN wtbl}

SQL_RANDOM_WORD(wtbl) == {<<i, wtbl[i].word>> : i \in DOMAIN wtbl}

(***************************************************************************)
(* FlashCardsModel                                                         *)
(***************************************************************************)
\* new_session(): insert, read back "the most recent", commit, return row[0]
new_session(t) ==
    /\ Len(sessions) < MaxSessions
    /\ LET tbl == SQL_INSERT_NEW_SESSION(sessions, IsoFormat(t))
       IN /\ sessions' = tbl
          /\ \E rowid \in SQL_MOST_RECENT_SESSION(tbl) :
                /\ ret' = [op |-> "new_session", outcome |-> "ok",
                           value |-> rowid, inserted |-> Len(tbl),
                           previous |-> lastSession]
                /\ lastSession' = rowid
    /\ UNCHANGED <<words, scores, log>>

\* get_random_word(): (row[0], row[1]); row is None on an empty table
get_random_word ==
    /\ IF SQL_RANDOM_WORD(words) = {}
       THEN ret' = [op |-> "get_random_word", outcome |-> "TypeError"]
       ELSE \E row \in SQL_RANDOM_WORD(words) :
                ret' = [op |-> "get_random_word", outcome |-> "ok",
                        value |-> row]
    /\ UNCHANGED <<words, sessions, scores, log, lastSession>>

\* score_word(session_id, word_id, success): insert one row and commit
score_word(session_id, word_id, success) ==
    /\ Len(scores) < MaxScores
    /\ scores' = SQL_INSERT_SCORE(scores, session_id, word_id,
                                  IF success THEN Success_TRUE ELSE Success_FALSE)
    /\ log' = Append(log, <<session_id, word_id, success>>)
    /\ ret' = [op |-> "score_word", outcome |-> "ok"]
    /\ UNCHANGED <<words, sessions, lastSession>>

\* get_session_score(session_id): float(correct) / float(count); float(None)
\* is evaluated first and raises TypeError
get_session_score(session_id) ==
    /\ LET count == SQL_SESSION_TOTAL(scores, session_id)
           correct == SQL_SCORE_SESSION(scores, session_id)
       IN ret' = IF correct = NULL
                 THEN [op |-> "get_session_score", session_id |-> session_id,
                       outcome |-> "TypeError"]
                 ELSE IF count = 0
                 THEN [op |-> "get_session_score", session_id |-> session_id,
                       outcome |-> "ZeroDivisionError"]
                 ELSE [op |-> "get_session_score", session_id |-> session_id,
                       outcome |-> "ok", value |-> FloatDiv(correct[1], count)]
    /\ UNCHANGED <<words, sessions, scores, log, lastSession>>

\* get_incorrect_words(session_id): the fetched rows as a list of pairs
get_incorrect_words(session_id) ==
    /\ ret' = [op |-> "get_incorrect_words", session_id |-> session_id,
               outcome |-> "ok",
               value |-> SQL_INCORRECT_WORDS(scores, words, session_id)]
    /\ UNCHANGED <<words, sessions, scores, log, lastSession>>

(***************************************************************************)
(* The word table statements and the input file.                           *)
(***************************************************************************)
SeqsUpTo(S, n) == UNION {[1..k -> S] : k \in 0..n}

\* the input file: absent, or a list of records
Sources ==
    {[exists |-> FALSE, records |-> <<>>]}
    \cup {[exists |-> TRUE, records |-> rs] : rs \in SeqsUpTo(Records, MaxRecords)}

\* DROP TABLE IF EXISTS t; CREATE TABLE IF NOT EXISTS t (...): an empty table.
\* sqlite3 opens no transaction for DDL, each statement is committed at once.
DropAndCreate(tbl) == <<>>

\* INSERT INTO words (_id, level, word) VALUES(<Number>,<Level>,"<Word>"):
\* an empty Level is a syntax error, a taken _id breaks the primary key;
\* inside VALUES the double-quoted text is a string literal
SQL_INSERT_WORD_LevelFromNumber(wtbl, record) ==
    IF record.Level = "" THEN [err |-> "OperationalError", tbl |-> wtbl]
    ELSE IF SqlInt(record.Number) \in DOMAIN wtbl
    THEN [err |-> "IntegrityError", tbl |-> wtbl]
    ELSE [err |-> "",
          tbl |-> [i \in DOMAIN wtbl \cup {SqlInt(record.Number)} |->
                     IF i = SqlInt(record.Number)
                     THEN [level |-> SqlInt(record.Number), word |-> record.Word]
                     ELSE wtbl[i]]]

SQL_INSERT_WORD(wtbl, record) ==
    IF record.Level = "" THEN [err |-> "OperationalError", tbl |-> wtbl]
    ELSE IF SqlInt(record.Number) \in DOMAIN wtbl
    THEN [err |-> "IntegrityError", tbl |-> wtbl]
    ELSE [err |-> "",
          tbl |-> [i \in DOMAIN wtbl \cup {SqlInt(record.Number)} |->
                     IF i = SqlInt(record.Number)
                     THEN [level |-> SqlInt(record.Level), word |-> record.Word]
                     ELSE wtbl[i]]]

\* SELECT _id,level,word FROM words WHERE _id=<Number>; fetchone()
sql_find_word_by_id(wtbl, number) ==
    IF SqlInt(number) \in DOMAIN wtbl THEN NotNull(wtbl[SqlInt(number)]) ELSE NULL

\* the value of "<text>" inside UPDATE words: a double-quoted token that names
\* a column of the table is that column of the row, any other is a literal
DoubleQuoted(text, id, row) ==
    CASE text = "_id" -> IntText(id)
      [] text = "level" -> IntText(row.level)
      [] text = "word" -> row.word
      [] OTHER -> text

\* UPDATE words SET word="<Word>" WHERE _id=<Number>
sql_update_word(wtbl, word, number) ==
    [wtbl EXCEPT ![SqlInt(number)].word =
        DoubleQuoted(word, SqlInt(number), wtbl[SqlInt(number)])]

(***************************************************************************)
(* erase_and_recreate_tables                                               *)
(***************************************************************************)
\* the insert loop; it stops at the first statement that raises
RECURSIVE LoadLoop(_, _)
LoadLoop(records, st) ==
    IF records = <<>> \/ st.err # "" THEN st
    ELSE LoadLoop(Tail(records), SQL_INSERT_WORD(st.tbl, Head(records)))

\* The three tables are dropped and recreated (committed), then the file is
\* opened and loaded in one transaction: commit at the end, rollback of the
\* inserts by the connection's context manager on an exception.
erase_and_recreate_tables(source) ==
    LET w0 == DropAndCreate(words)
        st == LoadLoop(source.records, [err |-> "", tbl |-> w0])
        outcome == IF ~source.exists THEN "FileNotFoundError"
                   ELSE IF st.err # "" THEN st.err ELSE "ok"
    IN /\ words' = IF outcome = "ok" THEN st.tbl ELSE w0
       /\ sessions' = DropAndCreate(sessions)
       /\ scores' = DropAndCreate(scores)
       /\ ret' = [op |-> "erase_and_recreate_tables", outcome |-> outcome,
                  source |-> source,
                  dropped |-> [sessions |-> Len(sessions), scores |-> Len(scores)]]
       /\ log' = <<>>
       /\ lastSession' = 0

(***************************************************************************)
(* update_word_list                                                        *)
(***************************************************************************)
\* one pass of the loop body on a record
SyncRecord(record, st) ==
    LET row == sql_find_word_by_id(st.tbl, record.Number)
    IN IF row # NULL
       THEN IF row[1].word # record.Word
            THEN [st EXCEPT !.tbl = sql_update_word(st.tbl, record.Word, record.Number),
                            !.checked = @ + 1,
                            !.updated = @ + 1,
                            !.steps = Append(@, "updated")]
            ELSE [st EXCEPT !.checked = @ + 1,
                            !.steps = Append(@, "skipped")]
       ELSE LET ins == SQL_INSERT_WORD(st.tbl, record)
            IN IF ins.err # ""
               THEN [st EXCEPT !.checked = @ + 1, !.err = ins.err]
               ELSE [st EXCEPT !.tbl = ins.tbl,
                               !.checked = @ + 1,
                               !.added = @ + 1,
                               !.steps = Append(@, "added")]

RECURSIVE SyncLoop(_, _)
SyncLoop(records, st) ==
    IF records = <<>> \/ st.err # "" THEN st
    ELSE SyncLoop(Tail(records), SyncRecord(Head(records), st))

\* The whole run is one transaction: commit at the end, rollback on an
\* exception.  `second` tells that the call before this one was a successful
\* run on the same file content.
update_word_list(source) ==
    LET st == SyncLoop(source.records,
                       [tbl |-> words, err |-> "", checked |-> 0, updated |-> 0,
                        added |-> 0, steps |-> <<>>])
        outcome == IF ~source.exists THEN "FileNotFoundError"
                   ELSE IF st.err # "" THEN st.err ELSE "ok"
        second == /\ ret.op = "update_word_list"
                  /\ ret.outcome = "ok"
                  /\ ret.source = source
    IN /\ words' = IF outcome = "ok" THEN st.tbl ELSE words
       /\ ret' = IF outcome = "ok"
                 THEN [op |-> "update_word_list", outcome |-> outcome,
                       source |-> source, second |-> second,
                       checked |-> st.checked, updated |-> st.updated,
                       added |-> st.added, steps |-> st.steps]
                 ELSE [op |-> "update_word_list", outcome |-> outcome,
                       source |-> source]
       /\ UNCHANGED <<sessions, scores, log, lastSession>>

(***************************************************************************)
(* The drill specification: a loaded catalog, sessions, scores, reports.   *)
(***************************************************************************)
\* the catalogs a store starts with: both words loaded, or word 1 alone
Catalogs ==
    { (1 :> [level |-> 1, word |-> "hello"]) @@ (2 :> [level |-> 2, word |-> "word"]),
      (1 :> [level |-> 1, word |-> "hello"]) }

Init ==
    /\ words \in Catalogs
    /\ sessions = <<>>
    /\ scores = <<>>
    /\ ret = [op |-> "init", outcome |-> "ok"]
    /\ log = <<>>
    /\ lastSession = 0

Next ==
    \/ \E t \in Times : new_session(t)
    \/ \E s \in SessionIds, w \in WordIds, b \in BOOLEAN : score_word(s, w, b)
    \/ \E s \in SessionIds : get_session_score(s)
    \/ \E s \in SessionIds : get_incorrect_words(s)

Spec == Init /\ [][Next]_vars

(***************************************************************************)
(* The loader specification: full-replace loads and synchronizations of    *)
(* any input file, with one session and one score as the history a load    *)
(* can destroy, and the word sampler reading the catalog in between.       *)
(***************************************************************************)
NextLoader ==
    \/ \E src \in Sources : erase_and_recreate_tables(src)
    \/ \E src \in Sources : update_word_list(src)
    \/ get_random_word
    \/ sessions = <<>> /\ new_session(<<0, 0>>)
    \/ scores = <<>> /\ score_word(1, 1, FALSE)

SpecLoader == Init /\ [][NextLoader]_vars

(***************************************************************************)
(* Claims.                                                                 *)
(***************************************************************************)
\* what the score_word calls made on this store say about a session
Attempts(session_id) == {i \in DOMAIN log : log[i][1] = session_id}

CorrectAttempts(session_id) == {i \in Attempts(session_id) : log[i][3]}

\* C1: every new_session() call returns the identifier of the Session row
\* that this very call inserted, also when the stamped date equals or is
\* smaller than the date of an existing row.
C1_ReturnsInsertedRow ==
    ret.op = "new_session" => ret.value = ret.inserted

\* C8: of two new_session() calls on the same store the later one returns
\* a strictly greater (so distinct) identifier than the earlier one.
C8_LaterSessionGreater ==
    (ret.op = "new_session" /\ ret.previous # 0) => ret.value > ret.previous

\* C2: for a session with k >= 1 recorded attempts of which c were recorded
\* with success = true, get_session_score returns exactly c/k, counting the
\* attempts of that session only.
C2_SessionScoreIsRatio ==
    (ret.op = "get_session_score" /\ Attempts(ret.session_id) # {}) =>
        /\ ret.outcome = "ok"
        /\ ret.value[2] > 0
        /\ ret.value[1] * Cardinality(Attempts(ret.session_id))
             = Cardinality(CorrectAttempts(ret.session_id)) * ret.value[2]

\* C2 witness: session 1 scored 1 of 2 on a repeated word, with an attempt
\* of session 2 recorded in between, and get_session_score(1) returned.
C2_Witness ==
    /\ ret.op = "get_session_score"
    /\ ret.session_id = 1
    /\ ret.outcome = "ok"
    /\ Len(log) = 3
    /\ log[1][1] = 1 /\ log[2][1] = 2 /\ log[3][1] = 1
    /\ log[1][2] = log[3][2]
    /\ log[1][3] /\ log[2][3] /\ ~log[3][3]
    /\ ret.value = <<1, 2>>

\* C3: get_session_score on a session with no recorded Score row ends in
\* the NoAttempts error outcome (the division-by-zero signal of the
\* contract), not in a ratio and not in an unrelated fault.
C3_NoAttemptsSignalled ==
    (ret.op = "get_session_score" /\ Attempts(ret.session_id) = {}) =>
        ret.outcome \in {"NoAttempts", "ZeroDivisionError"}

\* C6: get_incorrect_words(session_id) returns only (word_id, text) pairs
\* for which a Score row of that session and that word has correct = 0: a
\* word answered correctly at every attempt of the session, or answered
\* wrongly in another session only, never appears.
C6_OnlyIncorrectWords ==
    ret.op = "get_incorrect_words" =>
        \A k \in DOMAIN ret.value :
            /\ \E j \in DOMAIN scores :
                  /\ scores[j].session_rowid = ret.session_id
                  /\ scores[j].word_id = ret.value[k][1]
                  /\ scores[j].correct = 0
            /\ \E i \in Attempts(ret.session_id) :
                  log[i][2] = ret.value[k][1] /\ ~log[i][3]

\* C6 witness: in session 1 word 1 was missed and word 2 was answered
\* correctly, word 2 was missed in session 2, and the report of session 1
\* holds word 1 alone.
C6_Witness ==
    /\ ret.op = "get_incorrect_words"
    /\ ret.session_id = 1
    /\ 2 \in DOMAIN words
    /\ \E i \in DOMAIN log : log[i] = <<1, 1, FALSE>>
    /\ \E i \in DOMAIN log : log[i] = <<1, 2, TRUE>>
    /\ \E i \in DOMAIN log : log[i] = <<2, 2, FALSE>>
    /\ ret.value = <<<<1, words[1].word>>>>

\* the words table a list of records describes, when no two share a Number
TableOf(records) ==
    [i \in {SqlInt(records[k].Number) : k \in DOMAIN records} |->
        LET k == CHOOSE k \in DOMAIN records : SqlInt(records[k].Number) = i
        IN [level |-> SqlInt(records[k].Level), word |-> records[k].Word]]

\* C7: after a successful erase_and_recreate_tables, whatever sessions and
\* scores existed before, Sessions and Scores are empty and Words holds
\* exactly the records of the source, each with its id, level and text.
C7_FullReplaceLoads ==
    (ret.op = "erase_and_recreate_tables" /\ ret.outcome = "ok") =>
        /\ sessions = <<>>
        /\ scores = <<>>
        /\ Cardinality(DOMAIN words) = Len(ret.source.records)
        /\ words = TableOf(ret.source.records)

\* C7 witness: a load of two records succeeded on a store that held a
\* session and a score.
C7_Witness ==
    /\ ret.op = "erase_and_recreate_tables"
    /\ ret.outcome = "ok"
    /\ Len(ret.source.records) = 2
    /\ ret.dropped.sessions = 1
    /\ ret.dropped.scores = 1

\* C10: a full-replace load that fails (missing file, malformed record)
\* leaves the store as it was before the load was started.
C10_FailedLoadChangesNothing ==
    [][(ret'.op = "erase_and_recreate_tables" /\ ret'.outcome # "ok") =>
          (words' = words /\ sessions' = sessions /\ scores' = scores)]_vars

\* C4: a synchronization run right after a successful run on the same
\* source reports updated = 0 and added = 0 and leaves the Words table as
\* it was.
C4_SyncIdempotent ==
    [][(ret'.op = "update_word_list" /\ ret'.outcome = "ok" /\ ret'.second) =>
          (ret'.updated = 0 /\ ret'.added = 0 /\ words' = words)]_vars

\* C5: when the catalog holds Word i with text OLD and the source has a row
\* Number = i, Word = NEW # OLD, then after update_word_list the stored text
\* of Word i is NEW, that row counted as one update and as no addition, and
\* the stored level of Word i is unchanged.  (Stated for the row of a Number
\* that occurs once in the source, the case the claim describes.)
C5_SyncUpdatesText ==
    [][(ret'.op = "update_word_list" /\ ret'.outcome = "ok") =>
          \A k \in DOMAIN ret'.source.records :
             LET r == ret'.source.records[k]
                 i == SqlInt(r.Number)
                 once == \A m \in DOMAIN ret'.source.records :
                            ret'.source.records[m].Number = r.Number => m = k
             IN (once /\ i \in DOMAIN words /\ words[i].word # r.Word) =>
                   /\ words'[i].word = r.Word
                   /\ ret'.steps[k] = "updated"
                   /\ words'[i].level = words[i].level]_vars

\* C9: on a non-empty catalog every get_random_word() call returns the id
\* and the current stored text of a Word of the catalog, and changes no
\* Word, Session or Score row.
C9_RandomWordInCatalog ==
    [][(ret'.op = "get_random_word" /\ DOMAIN words # {}) =>
          /\ ret'.outcome = "ok"
          /\ ret'.value[1] \in DOMAIN words
          /\ ret'.value[2] = words[ret'.value[1]].word
          /\ words' = words /\ sessions' = sessions /\ scores' = scores]_vars

\* C9 witness: the sampler returned word 2 of a two-word catalog whose
\* word 1 a synchronization has rewritten.
C9_Witness ==
    /\ ret.op = "get_random_word"
    /\ ret.outcome = "ok"
    /\ DOMAIN words = {1, 2}
    /\ words[1] = [level |-> 1, word |-> "thanks"]
    /\ ret.value = <<2, words[2].word>>

====
